---- MODULE Spec2Model ----
(***************************************************************************)
(* Ledger of ma_boutique: partners, transactions and payments kept in the  *)
(* Dexie store (db.ts), the balance engine (utils/balance.ts) and the      *)
(* ledger operations of the hooks usePartners, useTransactions and         *)
(* usePayments.                                                            *)
(*                                                                         *)
(* Time is counted in ticks of 1000 ms; a calendar day has TicksPerDay     *)
(* ticks.  Fields that no modelled operation reads (note, phone, items,    *)
(* imageUrl, ocrText, createdAt, updatedAt) are left out of the records.   *)
(* An optional field that is absent, and a transactionId that is falsy,    *)
(* are both a key missing from the record (patches) or the value NoTx.     *)
(***************************************************************************)
EXTENDS Integers, Sequences, FiniteSets, TLC

VARIABLES partners, transactions, payments, nextId, now, last, probe

vars == <<partners, transactions, payments, nextId, now, last, probe>>

store == <<partners, transactions, payments>>

\* ---------------------------------------------------------------- bounds
\* Highest id the auto-increment key generator of each table hands out.
MaxPartnerId == 2
MaxTxId == 2
MaxPaymentId == 2
\* Transactions and payments the ledger ever holds, deleted ones included.
MaxRecords == 3
\* Ticks in one calendar day, and the last tick the clock reaches.
TicksPerDay == 2
MaxDay == 2
MaxNow == (MaxDay + 1) * TicksPerDay - 1
\* Largest total / paid given to the position functions.
\* partners of the dashboard's ledger; days of a calendar month
DashPartners == 6
DaysPerMonth == 2
MaxPosAmount == 5

\* Date.now() + 1000 of getCurrentBalance, in ticks.
NowSlack == 1

\* falsy transactionId (undefined / 0): the payment is standalone
NoTx == 0

PartnerTypes == {"CLIENT", "SUPPLIER", "BOTH"}
Directions == {"SALE", "PURCHASE"}

\* ------------------------------------------------------- position (pure)
\* calculatePosition with the direction forgotten
calculatePositionUnsigned(tx) ==
  tx.total - tx.paid

\* utils/balance.ts calculatePosition
calculatePosition(tx) ==
  LET unpaid == tx.total - tx.paid
  IN  IF tx.direction = "SALE" THEN unpaid ELSE -unpaid

\* utils/balance.ts calculateTransactionImpact
calculateTransactionImpact(direction, total, paid) ==
  LET unpaid == total - paid
  IN  IF direction = "SALE" THEN unpaid ELSE -unpaid

\* the inline position with the PURCHASE branch not negated
inlinePositionSaleOnly(txData) ==
  txData.total - txData.paid

\* the inline position of useTransactions.createTransaction
inlinePosition(txData) ==
  IF txData.direction = "SALE"
    THEN (txData.total - txData.paid)
    ELSE -(txData.total - txData.paid)

\* utils/balance.ts previewNewBalance
previewNewBalance(currentBalance, direction, total, paid) ==
  LET impact == calculateTransactionImpact(direction, total, paid)
  IN  currentBalance + impact

\* utils/balance.ts previewBalanceAfterPayment
previewBalanceAfterPayment(currentBalance, paymentAmount) ==
  IF currentBalance >= 0
    THEN currentBalance - paymentAmount
    ELSE currentBalance + paymentAmount

\* --------------------------------------------------------- balance engine
\* transactions.reduce((sum, tx) => sum + calculatePosition(tx), 0)
RECURSIVE sumPositions(_)
sumPositions(ids) ==
  IF ids = {} THEN 0
  ELSE LET i == CHOOSE x \in ids : TRUE
       IN  calculatePosition(transactions[i]) + sumPositions(ids \ {i})

\* standalonePayments.reduce((sum, p) => sum + p.amount, 0)
RECURSIVE sumAmounts(_)
sumAmounts(ids) ==
  IF ids = {} THEN 0
  ELSE LET i == CHOOSE x \in ids : TRUE
       IN  payments[i].amount + sumAmounts(ids \ {i})

\* the transactions query on the date alone, whatever the partner
transactionsBeforeAnyPartner(partnerId, beforeDate) ==
  { i \in DOMAIN transactions :
      transactions[i].date >= 0 /\ transactions[i].date < beforeDate }

\* db.transactions.where('[partnerId+date]')
\*   .between([partnerId, 0], [partnerId, beforeDate], true, false)
transactionsBefore(partnerId, beforeDate) ==
  { i \in DOMAIN transactions :
      /\ transactions[i].partnerId = partnerId
      /\ transactions[i].date >= 0
      /\ transactions[i].date < beforeDate }

\* the payments query without the !p.transactionId filter
allPaymentsBefore(partnerId, beforeDate) ==
  { i \in DOMAIN payments :
      /\ payments[i].partnerId = partnerId
      /\ payments[i].date < beforeDate }

\* db.payments.where('partnerId').equals(partnerId)
\*   .filter(p => !p.transactionId && p.date < beforeDate)
standalonePaymentsBefore(partnerId, beforeDate) ==
  { i \in DOMAIN payments :
      /\ payments[i].partnerId = partnerId
      /\ payments[i].transactionId = NoTx
      /\ payments[i].date < beforeDate }

\* the payments subtracted blindly, whatever the sign of the balance
applyPaymentsNaive(balance, totalPayments) ==
  balance - totalPayments

\* the zero-directed step of getPreviousBalance
applyPayments(balance, totalPayments) ==
  IF balance >= 0
    THEN balance - totalPayments
    ELSE balance + totalPayments

getPreviousBalance(partnerId, beforeDate) ==
  LET balance == sumPositions(transactionsBefore(partnerId, beforeDate))
      totalPayments == sumAmounts(standalonePaymentsBefore(partnerId, beforeDate))
  IN  applyPayments(balance, totalPayments)

getCurrentBalance(partnerId) ==
  getPreviousBalance(partnerId, now + NowSlack)

\* ------------------------------------------------------------- db helpers
\* new Date(t).toDateString(): the calendar day of tick t
toDateString(t) == t \div TicksPerDay

\* the edit window taken as the 24 hours after the transaction's date
canEditWithin24h(tx) ==
  tx.date <= now /\ now - tx.date < TicksPerDay

\* db.canEditTransaction
canEditTransaction(tx) ==
  toDateString(tx.date) = toDateString(now)

\* the record the unique index &[name+type] finds, as a set of ids
byNameType(name, type) ==
  { i \in DOMAIN partners : partners[i].name = name /\ partners[i].type = type }

\* db.partnerExists(name, type, excludeId); excludeId = 0 when not given
partnerExists(name, type, excludeId) ==
  LET existing == byNameType(name, type)
  IN  IF existing = {} THEN FALSE
      ELSE IF excludeId # 0 /\ excludeId \in existing THEN FALSE
      ELSE TRUE

\* String.prototype.trim on a name given as a sequence of characters
RECURSIVE trimStart(_)
trimStart(s) ==
  IF s # <<>> /\ Head(s) = " " THEN trimStart(Tail(s)) ELSE s

RECURSIVE trimEnd(_)
trimEnd(s) ==
  IF s # <<>> /\ s[Len(s)] = " " THEN trimEnd(SubSeq(s, 1, Len(s) - 1)) ELSE s

trim(s) == trimEnd(trimStart(s))

\* Dexie Table.update(id, changes): the stored record with the patch's keys
\* overwritten
merge(rec, updates) ==
  [f \in DOMAIN rec |-> IF f \in DOMAIN updates THEN updates[f] ELSE rec[f]]

\* Table.add / Table.delete on a table kept as a function id -> record
tableAdd(table, id, rec) ==
  [i \in DOMAIN table \cup {id} |-> IF i = id THEN rec ELSE table[i]]

tableDelete(table, id) ==
  [i \in DOMAIN table \ {id} |-> table[i]]

tablePut(table, id, rec) ==
  [i \in DOMAIN table |-> IF i = id THEN rec ELSE table[i]]

NoSnapshot == [ancien |-> 0, position |-> 0, nouveau |-> 0]

\* a call without input data (delete, clock)
NoData == << >>

\* what the last call was, the id and the data it was given, how it ended
Outcome(op, id, data, outcome) ==
  [op |-> op, id |-> id, data |-> data, outcome |-> outcome,
   snapshot |-> NoSnapshot]

NoProbe == [direction |-> "SALE", total |-> 0, paid |-> 0, done |-> FALSE,
            position |-> 0, inline |-> 0, impact |-> 0]

\* ----------------------------------------------------------------- Init
Init ==
  /\ partners = << >>
  /\ transactions = << >>
  /\ payments = << >>
  /\ nextId = [partners |-> 1, transactions |-> 1, payments |-> 1]
  /\ now = TicksPerDay
  /\ last = Outcome("init", 0, NoData, "ok")
  /\ probe = NoProbe

\* the wall clock advances by one tick
Tick ==
  /\ now < MaxNow
  /\ now' = now + 1
  /\ last' = Outcome("tick", 0, NoData, "ok")
  /\ UNCHANGED <<partners, transactions, payments, nextId, probe>>

\* transactions and payments inserted so far
recordCount == (nextId.transactions - 1) + (nextId.payments - 1)

\* a call that throws: nothing is written
Reject(op, id, data, outcome) ==
  /\ last' = Outcome(op, id, data, outcome)
  /\ UNCHANGED <<partners, transactions, payments, nextId, now, probe>>

\* ------------------------------------------- useTransactions (the hook)
\* createTransaction looking the partner up after the insert
createTransactionWriteFirst(txData) ==
  LET ancien == getPreviousBalance(txData.partnerId, txData.date)
      position == inlinePosition(txData)
      id == nextId.transactions
  IN  IF txData.total <= 0 THEN Reject("createTransaction", 0, txData, "Invalid")
      ELSE IF txData.paid < 0 THEN Reject("createTransaction", 0, txData, "Invalid")
      ELSE /\ id <= MaxTxId
           /\ recordCount < MaxRecords
           /\ transactions' = tableAdd(transactions, id, txData)
           /\ nextId' = [nextId EXCEPT !.transactions = id + 1]
           /\ last' = IF txData.partnerId \notin DOMAIN partners
                        THEN Outcome("createTransaction", 0, txData,
                                     "PartnerNotFound")
                        ELSE [op |-> "createTransaction", id |-> id,
                              data |-> txData, outcome |-> "ok",
                              snapshot |-> [ancien |-> ancien,
                                            position |-> position,
                                            nouveau |-> ancien + position]]
           /\ UNCHANGED <<partners, payments, now, probe>>

\* createTransaction without the partner lookup
createTransactionNoLookup(txData) ==
  LET ancien == getPreviousBalance(txData.partnerId, txData.date)
      position == inlinePosition(txData)
      id == nextId.transactions
  IN  IF txData.total <= 0 THEN Reject("createTransaction", 0, txData, "Invalid")
      ELSE IF txData.paid < 0 THEN Reject("createTransaction", 0, txData, "Invalid")
      ELSE /\ id <= MaxTxId
           /\ recordCount < MaxRecords
           /\ transactions' = tableAdd(transactions, id, txData)
           /\ nextId' = [nextId EXCEPT !.transactions = id + 1]
           /\ last' = [op |-> "createTransaction", id |-> id,
                       data |-> txData, outcome |-> "ok",
                       snapshot |-> [ancien |-> ancien, position |-> position,
                                     nouveau |-> ancien + position]]
           /\ UNCHANGED <<partners, payments, now, probe>>

\* createTransaction booking the part paid as a standalone payment too: one
\* call that writes both tables
createTransactionWithPayment(txData) ==
  LET ancien == getPreviousBalance(txData.partnerId, txData.date)
      position == inlinePosition(txData)
      id == nextId.transactions
      paymentId == nextId.payments
  IN  IF txData.total <= 0 THEN Reject("createTransaction", 0, txData, "Invalid")
      ELSE IF txData.paid < 0 THEN Reject("createTransaction", 0, txData, "Invalid")
      ELSE IF txData.partnerId \notin DOMAIN partners
        THEN Reject("createTransaction", 0, txData, "PartnerNotFound")
      ELSE /\ id <= MaxTxId
           /\ paymentId <= MaxPaymentId
           /\ recordCount + 1 < MaxRecords
           /\ transactions' = tableAdd(transactions, id, txData)
           /\ payments' = tableAdd(payments, paymentId,
                                   [partnerId |-> txData.partnerId,
                                    transactionId |-> NoTx,
                                    date |-> txData.date,
                                    amount |-> txData.paid])
           /\ nextId' = [nextId EXCEPT !.transactions = id + 1,
                                       !.payments = paymentId + 1]
           /\ last' = [op |-> "createTransaction", id |-> id,
                       data |-> txData, outcome |-> "ok",
                       snapshot |-> [ancien |-> ancien, position |-> position,
                                     nouveau |-> ancien + position]]
           /\ UNCHANGED <<partners, now, probe>>

createTransaction(txData) ==
  LET ancien == getPreviousBalance(txData.partnerId, txData.date)
      position == inlinePosition(txData)
      nouveau == ancien + position
      id == nextId.transactions
  IN  IF txData.total <= 0 THEN Reject("createTransaction", 0, txData, "Invalid")
      ELSE IF txData.paid < 0 THEN Reject("createTransaction", 0, txData, "Invalid")
      ELSE IF txData.partnerId \notin DOMAIN partners
        THEN Reject("createTransaction", 0, txData, "PartnerNotFound")
      ELSE /\ id <= MaxTxId
           /\ recordCount < MaxRecords
           /\ transactions' = tableAdd(transactions, id, txData)
           /\ nextId' = [nextId EXCEPT !.transactions = id + 1]
           /\ last' = [op |-> "createTransaction", id |-> id,
                       data |-> txData, outcome |-> "ok",
                       snapshot |-> [ancien |-> ancien, position |-> position,
                                     nouveau |-> nouveau]]
           /\ UNCHANGED <<partners, payments, now, probe>>

\* updateTransaction validating the fields of the patch only, not the merge
updateTransactionPatchOnly(id, updates) ==
  IF id \notin DOMAIN transactions
    THEN Reject("updateTransaction", id, updates, "NotFound")
  ELSE
    LET tx == transactions[id]
    IN  IF ~canEditTransaction(tx)
          THEN Reject("updateTransaction", id, updates, "Locked")
        ELSE IF "total" \in DOMAIN updates /\ updates.total <= 0
          THEN Reject("updateTransaction", id, updates, "Invalid")
        ELSE IF "paid" \in DOMAIN updates /\ updates.paid < 0
          THEN Reject("updateTransaction", id, updates, "Invalid")
        ELSE IF {"total", "paid"} \subseteq DOMAIN updates
                /\ updates.paid > updates.total
          THEN Reject("updateTransaction", id, updates, "Invalid")
        ELSE /\ transactions' = tablePut(transactions, id, merge(tx, updates))
             /\ last' = Outcome("updateTransaction", id, updates, "ok")
             /\ UNCHANGED <<partners, payments, nextId, now, probe>>

updateTransaction(id, updates) ==
  IF id \notin DOMAIN transactions
    THEN Reject("updateTransaction", id, updates, "NotFound")
  ELSE
    LET tx == transactions[id]
        finalTotal == IF "total" \in DOMAIN updates THEN updates.total ELSE tx.total
        finalPaid == IF "paid" \in DOMAIN updates THEN updates.paid ELSE tx.paid
    IN  IF ~canEditTransaction(tx)
          THEN Reject("updateTransaction", id, updates, "Locked")
        ELSE IF "total" \in DOMAIN updates /\ updates.total <= 0
          THEN Reject("updateTransaction", id, updates, "Invalid")
        ELSE IF "paid" \in DOMAIN updates /\ updates.paid < 0
          THEN Reject("updateTransaction", id, updates, "Invalid")
        ELSE IF finalPaid > finalTotal
          THEN Reject("updateTransaction", id, updates, "Invalid")
        ELSE /\ transactions' = tablePut(transactions, id, merge(tx, updates))
             /\ last' = Outcome("updateTransaction", id, updates, "ok")
             /\ UNCHANGED <<partners, payments, nextId, now, probe>>

\* deleteTransaction without the count of the linked payments
deleteTransactionUnguarded(id) ==
  IF id \notin DOMAIN transactions
    THEN Reject("deleteTransaction", id, NoData, "NotFound")
  ELSE IF ~canEditTransaction(transactions[id])
    THEN Reject("deleteTransaction", id, NoData, "Locked")
  ELSE /\ transactions' = tableDelete(transactions, id)
       /\ last' = Outcome("deleteTransaction", id, NoData, "ok")
       /\ UNCHANGED <<partners, payments, nextId, now, probe>>

deleteTransaction(id) ==
  IF id \notin DOMAIN transactions
    THEN Reject("deleteTransaction", id, NoData, "NotFound")
  ELSE
    LET tx == transactions[id]
        paymentCount ==
          Cardinality({ i \in DOMAIN payments : payments[i].transactionId = id })
    IN  IF ~canEditTransaction(tx)
          THEN Reject("deleteTransaction", id, NoData, "Locked")
        ELSE IF paymentCount > 0
          THEN Reject("deleteTransaction", id, NoData, "HasPayments")
        ELSE /\ transactions' = tableDelete(transactions, id)
             /\ last' = Outcome("deleteTransaction", id, NoData, "ok")
             /\ UNCHANGED <<partners, payments, nextId, now, probe>>

\* ----------------------------------------------- usePayments (the hook)
\* createPayment without the comparison of the two partner ids
createPaymentNoMatch(paymentData) ==
  LET id == nextId.payments
  IN  IF paymentData.amount <= 0 THEN Reject("createPayment", 0, paymentData, "Invalid")
      ELSE IF paymentData.partnerId \notin DOMAIN partners
        THEN Reject("createPayment", 0, paymentData, "PartnerNotFound")
      ELSE IF paymentData.transactionId # NoTx
              /\ paymentData.transactionId \notin DOMAIN transactions
        THEN Reject("createPayment", 0, paymentData, "TransactionNotFound")
      ELSE /\ id <= MaxPaymentId
           /\ recordCount < MaxRecords
           /\ payments' = tableAdd(payments, id, paymentData)
           /\ nextId' = [nextId EXCEPT !.payments = id + 1]
           /\ last' = Outcome("createPayment", id, paymentData, "ok")
           /\ UNCHANGED <<partners, transactions, now, probe>>

createPayment(paymentData) ==
  LET id == nextId.payments
  IN  IF paymentData.amount <= 0 THEN Reject("createPayment", 0, paymentData, "Invalid")
      ELSE IF paymentData.partnerId \notin DOMAIN partners
        THEN Reject("createPayment", 0, paymentData, "PartnerNotFound")
      ELSE IF paymentData.transactionId # NoTx
              /\ paymentData.transactionId \notin DOMAIN transactions
        THEN Reject("createPayment", 0, paymentData, "TransactionNotFound")
      ELSE IF paymentData.transactionId # NoTx
              /\ transactions[paymentData.transactionId].partnerId
                   # paymentData.partnerId
        THEN Reject("createPayment", 0, paymentData, "PartnerMismatch")
      ELSE /\ id <= MaxPaymentId
           /\ recordCount < MaxRecords
           /\ payments' = tableAdd(payments, id, paymentData)
           /\ nextId' = [nextId EXCEPT !.payments = id + 1]
           /\ last' = Outcome("createPayment", id, paymentData, "ok")
           /\ UNCHANGED <<partners, transactions, now, probe>>

\* updatePayment without the check of the patch's amount
updatePaymentUnchecked(id, updates) ==
  IF id \notin DOMAIN payments
    THEN Reject("updatePayment", id, updates, "NotFound")
  ELSE /\ payments' = tablePut(payments, id, merge(payments[id], updates))
       /\ last' = Outcome("updatePayment", id, updates, "ok")
       /\ UNCHANGED <<partners, transactions, nextId, now, probe>>

\* updatePayment under the edit window of the transactions
updatePaymentLocked(id, updates) ==
  IF id \notin DOMAIN payments
    THEN Reject("updatePayment", id, updates, "NotFound")
  ELSE IF toDateString(payments[id].date) # toDateString(now)
    THEN Reject("updatePayment", id, updates, "Locked")
  ELSE IF "amount" \in DOMAIN updates /\ updates.amount <= 0
    THEN Reject("updatePayment", id, updates, "Invalid")
  ELSE /\ payments' = tablePut(payments, id, merge(payments[id], updates))
       /\ last' = Outcome("updatePayment", id, updates, "ok")
       /\ UNCHANGED <<partners, transactions, nextId, now, probe>>

updatePayment(id, updates) ==
  IF id \notin DOMAIN payments
    THEN Reject("updatePayment", id, updates, "NotFound")
  ELSE IF "amount" \in DOMAIN updates /\ updates.amount <= 0
    THEN Reject("updatePayment", id, updates, "Invalid")
  ELSE /\ payments' = tablePut(payments, id, merge(payments[id], updates))
       /\ last' = Outcome("updatePayment", id, updates, "ok")
       /\ UNCHANGED <<partners, transactions, nextId, now, probe>>

deletePayment(id) ==
  IF id \notin DOMAIN payments
    THEN Reject("deletePayment", id, NoData, "NotFound")
  ELSE /\ payments' = tableDelete(payments, id)
       /\ last' = Outcome("deletePayment", id, NoData, "ok")
       /\ UNCHANGED <<partners, transactions, nextId, now, probe>>

\* ----------------------------------------------- usePartners (the hook)
\* the index [name+type] declared without & (not unique)
indexNotUnique(id, rec) == FALSE

\* the unique index &[name+type] of the partners table: a write that would
\* leave two records with the same key is aborted with a ConstraintError
violatesUniqueIndex(id, rec) ==
  \E i \in DOMAIN partners :
    i # id /\ partners[i].name = rec.name /\ partners[i].type = rec.type

createPartner(partnerData) ==
  LET id == nextId.partners
  IN  IF trim(partnerData.name) = <<>>
        THEN Reject("createPartner", 0, partnerData, "Invalid")
      ELSE IF partnerExists(partnerData.name, partnerData.type, 0)
        THEN Reject("createPartner", 0, partnerData, "DuplicatePartner")
      ELSE IF violatesUniqueIndex(id, partnerData)
        THEN Reject("createPartner", 0, partnerData, "ConstraintError")
      ELSE /\ id <= MaxPartnerId
           /\ partners' = tableAdd(partners, id, partnerData)
           /\ nextId' = [nextId EXCEPT !.partners = id + 1]
           /\ last' = Outcome("createPartner", id, partnerData, "ok")
           /\ UNCHANGED <<transactions, payments, now, probe>>

updatePartner(id, updates) ==
  IF id \notin DOMAIN partners
    THEN Reject("updatePartner", id, updates, "NotFound")
  ELSE
    LET partner == partners[id]
        type == IF "type" \in DOMAIN updates THEN updates.type ELSE partner.type
        checked == /\ "name" \in DOMAIN updates
                   /\ updates.name # <<>>
                   /\ updates.name # partner.name
    IN  IF checked /\ partnerExists(updates.name, type, id)
          THEN Reject("updatePartner", id, updates, "DuplicatePartner")
        ELSE IF violatesUniqueIndex(id, merge(partner, updates))
          THEN Reject("updatePartner", id, updates, "ConstraintError")
        ELSE /\ partners' = tablePut(partners, id, merge(partner, updates))
             /\ last' = Outcome("updatePartner", id, updates, "ok")
             /\ UNCHANGED <<transactions, payments, nextId, now, probe>>

\* the payments guard of deletePartner left out
countNoPayments(id) == 0

\* db.payments.where('partnerId').equals(id).count()
countPaymentsOfPartner(id) ==
  Cardinality({ i \in DOMAIN payments : payments[i].partnerId = id })

\* db.transactions.where('partnerId').equals(id).count()
countTransactionsOfPartner(id) ==
  Cardinality({ i \in DOMAIN transactions : transactions[i].partnerId = id })

deletePartner(id) ==
  LET txCount == countTransactionsOfPartner(id)
      paymentCount == countPaymentsOfPartner(id)
  IN  IF txCount > 0 THEN Reject("deletePartner", id, NoData, "HasTransactions")
      ELSE IF paymentCount > 0 THEN Reject("deletePartner", id, NoData, "HasPayments")
      ELSE /\ partners' = tableDelete(partners, id)
           /\ last' = Outcome("deletePartner", id, NoData, "ok")
           /\ UNCHANGED <<transactions, payments, nextId, now, probe>>

\* ------------------------------------- balance queries (utils/balance.ts)
\* the null of getPartnerBalance
Null == [null |-> TRUE]

\* getAllBalances() called without a type
NoType == ""

\* Math.abs
abs(x) == IF x < 0 THEN -x ELSE x

\* db.transactions.where('partnerId').equals(partnerId).reverse().first():
\* the index is read backwards, so the highest id comes first; NoTx when the
\* partner has no transaction
lastTransactionOf(partnerId) ==
  LET own == { i \in DOMAIN transactions : transactions[i].partnerId = partnerId }
  IN  IF own = {} THEN NoTx ELSE CHOOSE i \in own : \A j \in own : j <= i

getPartnerBalance(partnerId) ==
  IF partnerId \notin DOMAIN partners THEN Null
  ELSE [partnerId |-> partnerId,
        partner |-> partners[partnerId],
        balance |-> getCurrentBalance(partnerId),
        lastTransaction |-> lastTransactionOf(partnerId),
        transactionCount |->
          Cardinality({ i \in DOMAIN transactions :
                          transactions[i].partnerId = partnerId })]

\* partners.map(p => getPartnerBalance(p.id!)), the partners in key order
RECURSIVE mapPartnerBalance(_)
mapPartnerBalance(ids) ==
  IF ids = {} THEN << >>
  ELSE LET i == CHOOSE x \in ids : \A y \in ids : x <= y
       IN  <<getPartnerBalance(i)>> \o mapPartnerBalance(ids \ {i})

\* getAllBalances with the type argument ignored
getAllBalancesUnfiltered(type) ==
  SelectSeq(mapPartnerBalance(DOMAIN partners), LAMBDA b : b # Null)

getAllBalances(type) ==
  LET ids == IF type # NoType
               THEN { i \in DOMAIN partners : partners[i].type = type }
               ELSE DOMAIN partners
      balances == mapPartnerBalance(ids)
  IN  SelectSeq(balances, LAMBDA b : b # Null)

\* balances.filter(b => b.balance > 0).reduce((sum, b) => sum + b.balance, 0)
sumCreances(balances) ==
  LET f[n \in 0..Len(balances)] ==
        IF n = 0 THEN 0
        ELSE f[n - 1] + (IF balances[n].balance > 0
                           THEN balances[n].balance ELSE 0)
  IN  f[Len(balances)]

\* the negative balances added as they are, without Math.abs
sumDettesSigned(balances) ==
  LET f[n \in 0..Len(balances)] ==
        IF n = 0 THEN 0
        ELSE f[n - 1] + (IF balances[n].balance < 0
                           THEN balances[n].balance ELSE 0)
  IN  f[Len(balances)]

\* balances.filter(b => b.balance < 0)
\*   .reduce((sum, b) => sum + Math.abs(b.balance), 0)
sumDettes(balances) ==
  LET f[n \in 0..Len(balances)] ==
        IF n = 0 THEN 0
        ELSE f[n - 1] + (IF balances[n].balance < 0
                           THEN abs(balances[n].balance) ELSE 0)
  IN  f[Len(balances)]

\* balances.reduce((sum, b) => sum + b.transactionCount, 0)
sumTransactionCount(balances) ==
  LET f[n \in 0..Len(balances)] ==
        IF n = 0 THEN 0 ELSE f[n - 1] + balances[n].transactionCount
  IN  f[Len(balances)]

\* getGlobalSummary with netBalance taken as creances + dettes
getGlobalSummaryNetAdded ==
  LET balances == getAllBalances(NoType)
      creances == sumCreances(balances)
      dettes == sumDettes(balances)
  IN  [creances |-> creances, dettes |-> dettes,
       netBalance |-> creances + dettes,
       totalTransactions |-> sumTransactionCount(balances),
       totalPartners |-> Len(balances)]

getGlobalSummary ==
  LET balances == getAllBalances(NoType)
      creances == sumCreances(balances)
      dettes == sumDettes(balances)
      totalTransactions == sumTransactionCount(balances)
  IN  [creances |-> creances, dettes |-> dettes,
       netBalance |-> creances - dettes,
       totalTransactions |-> totalTransactions,
       totalPartners |-> Len(balances)]

\* a query returned: nothing is written
Return(op, id, result) ==
  /\ last' = Outcome(op, id, result, "ok")
  /\ UNCHANGED <<partners, transactions, payments, nextId, now, probe>>

call_getPreviousBalance(partnerId, beforeDate) ==
  Return("getPreviousBalance", partnerId,
         [beforeDate |-> beforeDate,
          result |-> getPreviousBalance(partnerId, beforeDate)])

call_getCurrentBalance(partnerId) ==
  Return("getCurrentBalance", partnerId,
         [result |-> getCurrentBalance(partnerId)])

\* getPartnerBalance keeping the balance it computed on the partner record
call_getPartnerBalanceCaching(partnerId) ==
  /\ last' = Outcome("getPartnerBalance", partnerId,
                     [result |-> getPartnerBalance(partnerId)], "ok")
  /\ partners' = [i \in DOMAIN partners |->
                    IF i = partnerId
                      THEN [name |-> partners[i].name, type |-> partners[i].type,
                            balance |-> getCurrentBalance(i)]
                      ELSE partners[i]]
  /\ UNCHANGED <<transactions, payments, nextId, now, probe>>

call_getPartnerBalance(partnerId) ==
  Return("getPartnerBalance", partnerId,
         [result |-> getPartnerBalance(partnerId)])

call_getAllBalances(type) ==
  Return("getAllBalances", 0, [type |-> type, result |-> getAllBalances(type)])

call_getGlobalSummary ==
  Return("getGlobalSummary", 0, [result |-> getGlobalSummary])

\* ---------------------------- getPreviousBalance, one read at a time
\* no getPreviousBalance call is between its two reads
NoRead == [phase |-> "idle"]

\* the first await of getPreviousBalance: the transactions query and the
\* reduce over its rows; seen is the ledger this read was made on
getPreviousBalance_transactions(partnerId, beforeDate) ==
  /\ probe.phase # "transactionsRead"
  /\ probe' = [phase |-> "transactionsRead",
               partnerId |-> partnerId,
               beforeDate |-> beforeDate,
               balance |-> sumPositions(transactionsBefore(partnerId, beforeDate)),
               seen |-> [transactions |-> transactions, payments |-> payments,
                         last |-> last]]
  /\ UNCHANGED <<partners, transactions, payments, nextId, now, last>>

\* the second await: the payments query, the reduce over its rows and the
\* zero-directed step on the balance kept from the first read
getPreviousBalance_payments ==
  /\ probe.phase = "transactionsRead"
  /\ LET totalPayments ==
           sumAmounts(standalonePaymentsBefore(probe.partnerId, probe.beforeDate))
         result == applyPayments(probe.balance, totalPayments)
     IN  /\ probe' = [probe EXCEPT !.phase = "returned"]
         /\ last' = Outcome("getPreviousBalance", probe.partnerId,
                            [beforeDate |-> probe.beforeDate, result |-> result],
                            "ok")
  /\ UNCHANGED <<partners, transactions, payments, nextId, now>>

\* a call of a hook may run when no read is pending, or when no call has
\* run since the pending read
noCallSinceRead ==
  IF probe.phase # "transactionsRead" THEN TRUE
  ELSE /\ probe.seen.transactions = transactions
       /\ probe.seen.payments = payments
       /\ probe.seen.last = last

\* ------------------------------------------- useDashboard (the hook)
\* slice(0, 5)
TopLimit == 5

\* Array.prototype.slice(start, end)
slice(s, start, end) ==
  SubSeq(s, start + 1, IF end < Len(s) THEN end ELSE Len(s))

\* Array.prototype.sort((a, b) => b.balance - a.balance): the sort is stable,
\* so equal balances keep the order they had
RECURSIVE sortDescending(_)
sortDescending(s) ==
  IF s = << >> THEN << >>
  ELSE LET sorted == sortDescending(SubSeq(s, 1, Len(s) - 1))
           b == s[Len(s)]
           n == Cardinality({ j \in 1..Len(sorted) :
                                sorted[j].balance >= b.balance })
       IN  SubSeq(sorted, 1, n) \o <<b>> \o SubSeq(sorted, n + 1, Len(sorted))

\* Array.prototype.sort((a, b) => a.balance - b.balance)
RECURSIVE sortAscending(_)
sortAscending(s) ==
  IF s = << >> THEN << >>
  ELSE LET sorted == sortAscending(SubSeq(s, 1, Len(s) - 1))
           b == s[Len(s)]
           n == Cardinality({ j \in 1..Len(sorted) :
                                sorted[j].balance <= b.balance })
       IN  SubSeq(sorted, 1, n) \o <<b>> \o SubSeq(sorted, n + 1, Len(sorted))

\* the debtors cut to five without the sort
topDebtorsUnsorted(balances) ==
  slice(SelectSeq(balances, LAMBDA b : b.balance > 0), 0, TopLimit)

topDebtors(balances) ==
  slice(sortDescending(SelectSeq(balances, LAMBDA b : b.balance > 0)),
        0, TopLimit)

topCreditors(balances) ==
  slice(sortAscending(SelectSeq(balances, LAMBDA b : b.balance < 0)),
        0, TopLimit)

\* the calendar month of a timestamp: new Date(year, month, 1) up to
\* new Date(year, month + 1, 0, 23, 59, 59)
monthOf(t) == toDateString(t) \div DaysPerMonth

\* db.<table>.where('date').between(startOfMonth, endOfMonth).count()
countThisMonth(table) ==
  Cardinality({ i \in DOMAIN table : monthOf(table[i].date) = monthOf(now) })

useDashboard ==
  LET summary == getGlobalSummary
      balances == getAllBalances(NoType)
      totalPayments == Cardinality(DOMAIN payments)
  IN  [creances |-> summary.creances,
       dettes |-> summary.dettes,
       netBalance |-> summary.netBalance,
       totalTransactions |-> summary.totalTransactions,
       totalPartners |-> summary.totalPartners,
       totalPayments |-> totalPayments,
       topDebtors |-> topDebtors(balances),
       topCreditors |-> topCreditors(balances),
       transactionsThisMonth |-> countThisMonth(transactions),
       paymentsThisMonth |-> countThisMonth(payments)]

call_useDashboard ==
  Return("useDashboard", 0, [result |-> useDashboard])

\* ------------------------------------------------- the ledger under test
\* the ledger after createPartner of a CLIENT "a" and of a SUPPLIER "a"
InitBalance ==
  /\ partners = << [name |-> <<"a">>, type |-> "CLIENT"],
                   [name |-> <<"a">>, type |-> "SUPPLIER"] >>
  /\ transactions = << >>
  /\ payments = << >>
  /\ nextId = [partners |-> 3, transactions |-> 1, payments |-> 1]
  /\ now = TicksPerDay
  /\ last = Outcome("createPartner", 2, [name |-> <<"a">>, type |-> "SUPPLIER"],
                    "ok")
  /\ probe = NoProbe

BalDates == {TicksPerDay - 1, TicksPerDay}

BalTxInputs ==
  [partnerId : {1, 2}, date : BalDates, direction : Directions,
   total : {2}, paid : {1}]

BalPaymentInputs ==
  [partnerId : {1, 2}, transactionId : {NoTx, 1}, date : BalDates,
   amount : {1, 2}]

NextBalance ==
  \/ \E d \in BalTxInputs : createTransaction(d)
  \/ \E d \in BalPaymentInputs : createPayment(d)

SpecBalance == InitBalance /\ [][NextBalance]_vars

\* ----------------------------------------------- the payments under test
PayTxInputs ==
  [partnerId : {1}, date : {TicksPerDay - 1}, direction : Directions,
   total : {2}, paid : {1}]

PayPaymentPatches ==
  { [amount |-> 2], [date |-> TicksPerDay - 1], [date |-> TicksPerDay] }

NextPayments ==
  \/ \E d \in PayTxInputs : createTransaction(d)
  \/ \E d \in BalPaymentInputs : createPayment(d)
  \/ \E id \in DOMAIN payments, u \in PayPaymentPatches : updatePayment(id, u)
  \/ \E id \in DOMAIN payments : deletePayment(id)

SpecPayments == InitBalance /\ [][NextPayments]_vars

\* ------------------------------------------ the edit window under test
\* the ledger after createPartner of a CLIENT "a"
InitLock ==
  /\ partners = << [name |-> <<"a">>, type |-> "CLIENT"] >>
  /\ transactions = << >>
  /\ payments = << >>
  /\ nextId = [partners |-> 2, transactions |-> 1, payments |-> 1]
  /\ now = TicksPerDay
  /\ last = Outcome("createPartner", 1, [name |-> <<"a">>, type |-> "CLIENT"],
                    "ok")
  /\ probe = NoProbe

\* the last tick of the day before Init, the first tick of the day of Init,
\* the first tick of the next day
LockDates == {TicksPerDay - 1, TicksPerDay, 2 * TicksPerDay}

LockTxInputs ==
  [partnerId : {1}, date : LockDates, direction : {"SALE"}, total : {2},
   paid : {1}]

LockTxPatches ==
  { [paid |-> 0], [date |-> TicksPerDay - 1], [date |-> 2 * TicksPerDay] }

LockPaymentInputs ==
  [partnerId : {1}, transactionId : {1}, date : {TicksPerDay}, amount : {1}]

NextLock ==
  \/ Tick
  \/ \E d \in LockTxInputs : createTransaction(d)
  \/ \E id \in DOMAIN transactions, u \in LockTxPatches : updateTransaction(id, u)
  \/ \E id \in DOMAIN transactions : deleteTransaction(id)
  \/ \E d \in LockPaymentInputs : createPayment(d)

SpecLock == InitLock /\ [][NextLock]_vars

\* --------------------------------------------- the partners under test
PartnerNames == { <<" ">>, <<"a">>, <<"b">> }

PartnerInputs == [name : PartnerNames, type : PartnerTypes]

PartnerPatches ==
  { [name |-> n] : n \in {<<"a">>, <<"b">>, << >>} }
    \cup { [type |-> t] : t \in PartnerTypes }
    \cup { [name |-> <<"b">>, type |-> t] : t \in {"CLIENT", "SUPPLIER"} }

NextPartner ==
  \/ \E d \in PartnerInputs : createPartner(d)
  \/ \E id \in 1..MaxPartnerId, u \in PartnerPatches : updatePartner(id, u)
  \/ \E id \in 1..MaxPartnerId : deletePartner(id)

SpecPartner == Init /\ [][NextPartner]_vars

\* ------------------------------------- the referential guard under test
DeletePartnerInputs ==
  { [name |-> <<"a">>, type |-> t] : t \in {"CLIENT", "SUPPLIER"} }

DeleteTxInputs ==
  [partnerId : {1}, date : {TicksPerDay}, direction : {"SALE"}, total : {2},
   paid : {1}]

DeletePaymentInputs ==
  [partnerId : {1, 2}, transactionId : {NoTx}, date : {TicksPerDay},
   amount : {1}]

NextDelete ==
  \/ \E d \in DeletePartnerInputs : createPartner(d)
  \/ \E id \in 1..MaxPartnerId : deletePartner(id)
  \/ \E d \in DeleteTxInputs : createTransaction(d)
  \/ \E id \in 1..MaxTxId : deleteTransaction(id)
  \/ \E d \in DeletePaymentInputs : createPayment(d)
  \/ \E id \in 1..MaxPaymentId : deletePayment(id)

SpecDelete == Init /\ [][NextDelete]_vars

\* ------------------------------- the rules of the transactions under test
\* an id the key generator of the partners table never hands out
NoSuchPartner == MaxPartnerId + 1

RuleTxInputs ==
  [partnerId : {1, NoSuchPartner}, date : {TicksPerDay - 1, TicksPerDay},
   direction : {"SALE"}, total : {0, 2}, paid : {-1, 1, 3}]

RuleTxPatches ==
  { [total |-> 0], [total |-> 1], [paid |-> -1], [paid |-> 0], [paid |-> 3],
    [total |-> 3, paid |-> 2], [total |-> 1, paid |-> 2],
    [date |-> TicksPerDay] }

RuleTxPaymentInputs ==
  [partnerId : {1}, transactionId : {1}, date : {TicksPerDay}, amount : {1}]

NextTxRules ==
  \/ \E d \in RuleTxInputs : createTransaction(d)
  \/ \E id \in 1..MaxTxId, u \in RuleTxPatches : updateTransaction(id, u)
  \/ \E id \in 1..MaxTxId : deleteTransaction(id)
  \/ \E d \in RuleTxPaymentInputs : createPayment(d)
  \/ \E id \in DOMAIN payments : deletePayment(id)

SpecTxRules == InitLock /\ [][NextTxRules]_vars

\* ----------------------------------- the rules of the payments under test
RulePayTxInputs ==
  [partnerId : {1}, date : {TicksPerDay - 1}, direction : {"SALE"},
   total : {2}, paid : {1}]

RulePaymentInputs ==
  [partnerId : {1, 2, NoSuchPartner}, transactionId : {NoTx, 1},
   date : {TicksPerDay - 1}, amount : {0, 1}]

\* the last one has the keys the payment form sends
RulePaymentPatches ==
  { [amount |-> 0], [amount |-> 2], [date |-> TicksPerDay],
    [partnerId |-> 2, date |-> TicksPerDay, amount |-> 1] }

NextPayRules ==
  \/ \E d \in RulePayTxInputs : createTransaction(d)
  \/ \E d \in RulePaymentInputs : createPayment(d)
  \/ \E id \in 1..MaxPaymentId, u \in RulePaymentPatches : updatePayment(id, u)
  \/ \E id \in 1..MaxPaymentId : deletePayment(id)

SpecPayRules == InitBalance /\ [][NextPayRules]_vars

\* ------------------------------------------ the nine ledger operations
LedgerPartnerInputs ==
  { [name |-> <<" ">>, type |-> "CLIENT"], [name |-> <<"a">>, type |-> "CLIENT"],
    [name |-> <<"a">>, type |-> "SUPPLIER"] }

LedgerPartnerPatches == { [type |-> "CLIENT"] }

LedgerTxInputs ==
  [partnerId : {1}, date : {TicksPerDay}, direction : {"SALE"},
   total : {0, 2}, paid : {1}]

LedgerTxPatches == { [paid |-> 3], [date |-> TicksPerDay - 1] }

LedgerPaymentInputs ==
  [partnerId : {1}, transactionId : {NoTx, 1}, date : {TicksPerDay},
   amount : {0, 1}]

LedgerPaymentPatches == { [amount |-> 0], [amount |-> 2] }

NextLedger ==
  \/ \E d \in LedgerPartnerInputs : createPartner(d)
  \/ \E id \in 1..MaxPartnerId, u \in LedgerPartnerPatches : updatePartner(id, u)
  \/ \E id \in 1..MaxPartnerId : deletePartner(id)
  \/ \E d \in LedgerTxInputs : createTransaction(d)
  \/ \E id \in 1..MaxTxId, u \in LedgerTxPatches : updateTransaction(id, u)
  \/ \E id \in 1..MaxTxId : deleteTransaction(id)
  \/ \E d \in LedgerPaymentInputs : createPayment(d)
  \/ \E id \in 1..MaxPaymentId, u \in LedgerPaymentPatches : updatePayment(id, u)
  \/ \E id \in 1..MaxPaymentId : deletePayment(id)

SpecLedger == Init /\ [][NextLedger]_vars

\* ------------------------------------------- the queries under test
\* the second date is later than the Date.now() + 1000 of getCurrentBalance
QueryTxInputs ==
  [partnerId : {1, 2}, date : {TicksPerDay, TicksPerDay + 2},
   direction : Directions, total : {2}, paid : {1}]

QueryPaymentInputs ==
  [partnerId : {1, 2}, transactionId : {NoTx}, date : {TicksPerDay},
   amount : {1, 2}]

QueryDates == {TicksPerDay + 1, TicksPerDay + 3}

NextQuery ==
  \/ \E d \in QueryTxInputs : createTransaction(d)
  \/ \E d \in QueryPaymentInputs : createPayment(d)
  \/ \E id \in 1..MaxPartnerId : deletePartner(id)
  \/ \E id \in 1..NoSuchPartner, ts \in QueryDates :
       call_getPreviousBalance(id, ts)
  \/ \E id \in 1..NoSuchPartner : call_getCurrentBalance(id)
  \/ \E id \in 1..NoSuchPartner : call_getPartnerBalance(id)
  \/ \E t \in PartnerTypes \cup {NoType} : call_getAllBalances(t)
  \/ call_getGlobalSummary

SpecQuery == InitBalance /\ [][NextQuery]_vars

\* ------------------------------------- the stored records under test
IntegrityTxInputs ==
  [partnerId : {1}, date : {TicksPerDay}, direction : {"SALE"},
   total : {0, 2}, paid : {-1, 1}]

\* Partial<Transaction>: any of the fields, partnerId included
IntegrityTxPatches ==
  { [total |-> 0], [paid |-> -1], [paid |-> 0],
    [partnerId |-> NoSuchPartner] }

IntegrityPaymentInputs ==
  [partnerId : {1}, transactionId : {NoTx, 1}, date : {TicksPerDay},
   amount : {0, 1}]

\* Partial<Payment>: any of the fields, partnerId and transactionId included
IntegrityPaymentPatches ==
  { [amount |-> 0], [amount |-> 2], [partnerId |-> NoSuchPartner],
    [transactionId |-> 2] }

NextIntegrity ==
  \/ \E id \in DOMAIN partners : deletePartner(id)
  \/ \E d \in IntegrityTxInputs : createTransaction(d)
  \/ \E id \in DOMAIN transactions, u \in IntegrityTxPatches :
       updateTransaction(id, u)
  \/ \E id \in DOMAIN transactions : deleteTransaction(id)
  \/ \E d \in IntegrityPaymentInputs : createPayment(d)
  \/ \E id \in DOMAIN payments, u \in IntegrityPaymentPatches :
       updatePayment(id, u)
  \/ \E id \in DOMAIN payments : deletePayment(id)

SpecIntegrity == InitBalance /\ [][NextIntegrity]_vars

\* ------------------------------------ two partners' ledgers under test
FramePartnerInputs == { [name |-> <<"a">>, type |-> "SUPPLIER"] }

FramePartnerPatches == { [name |-> <<"b">>] }

FrameTxInputs ==
  [partnerId : {1, 2}, date : {TicksPerDay}, direction : {"SALE"},
   total : {2}, paid : {1}]

FrameTxPatches == { [paid |-> 0] }

FramePaymentInputs ==
  [partnerId : {2}, transactionId : {NoTx}, date : {TicksPerDay},
   amount : {1}]

FramePaymentPatches == { [amount |-> 2] }

NextFrame ==
  \/ \E d \in FramePartnerInputs : createPartner(d)
  \/ \E id \in DOMAIN partners, u \in FramePartnerPatches : updatePartner(id, u)
  \/ \E id \in DOMAIN partners : deletePartner(id)
  \/ \E d \in FrameTxInputs : createTransaction(d)
  \/ \E id \in DOMAIN transactions, u \in FrameTxPatches : updateTransaction(id, u)
  \/ \E id \in DOMAIN transactions : deleteTransaction(id)
  \/ \E d \in FramePaymentInputs : createPayment(d)
  \/ \E id \in DOMAIN payments, u \in FramePaymentPatches : updatePayment(id, u)
  \/ \E id \in DOMAIN payments : deletePayment(id)

SpecFrame == InitLock /\ [][NextFrame]_vars

\* ------------------------------------------------ the dashboard's ledger
\* the name of the i-th partner: "a", "aa", "aaa", ...
DashName(i) == [k \in 1..i |-> "a"]

DashTotal(i) == 1 + (i % 3)

\* the ledger after createPartner of DashPartners clients and, today, one
\* createTransaction for each of them: an unpaid SALE of 2, 3, 1, 2, 3, 1, ...
InitDashboard ==
  /\ partners = [i \in 1..DashPartners |->
                   [name |-> DashName(i), type |-> "CLIENT"]]
  /\ transactions = [i \in 1..DashPartners |->
                       [partnerId |-> i, date |-> TicksPerDay,
                        direction |-> "SALE", total |-> DashTotal(i),
                        paid |-> 0]]
  /\ payments = << >>
  /\ nextId = [partners |-> DashPartners + 1,
               transactions |-> DashPartners + 1, payments |-> 1]
  /\ now = TicksPerDay
  /\ last = [op |-> "createTransaction", id |-> DashPartners,
             data |-> transactions[DashPartners], outcome |-> "ok",
             snapshot |-> [ancien |-> 0, position |-> DashTotal(DashPartners),
                           nouveau |-> DashTotal(DashPartners)]]
  /\ probe = NoProbe

DashTxPatches == { [direction |-> "PURCHASE"], [paid |-> 1] }

NextDashboard ==
  \/ \E id \in DOMAIN transactions, updates \in DashTxPatches :
       updateTransaction(id, updates)
  \/ call_useDashboard

SpecDashboard == InitDashboard /\ [][NextDashboard]_vars

\* ----------------------------- the ledger written while a balance is read
InitInterleave ==
  /\ partners = << [name |-> <<"a">>, type |-> "CLIENT"] >>
  /\ transactions = << >>
  /\ payments = << >>
  /\ nextId = [partners |-> 2, transactions |-> 1, payments |-> 1]
  /\ now = TicksPerDay
  /\ last = Outcome("createPartner", 1, [name |-> <<"a">>, type |-> "CLIENT"],
                    "ok")
  /\ probe = NoRead

InterleaveTxInputs ==
  [partnerId : {1}, date : {TicksPerDay}, direction : Directions,
   total : {2}, paid : {1}]

InterleaveTxPatches == { [paid |-> 0] }

InterleavePaymentInputs ==
  [partnerId : {1}, transactionId : {NoTx}, date : {TicksPerDay}, amount : {1}]

InterleavePaymentPatches == { [amount |-> 2] }

InterleaveDates == {TicksPerDay + 1}

NextInterleave ==
  \/ \E ts \in InterleaveDates : getPreviousBalance_transactions(1, ts)
  \/ getPreviousBalance_payments
  \/ noCallSinceRead /\ \E txData \in InterleaveTxInputs :
       createTransaction(txData)
  \/ noCallSinceRead /\ \E id \in DOMAIN transactions,
                           updates \in InterleaveTxPatches :
       updateTransaction(id, updates)
  \/ noCallSinceRead /\ \E id \in DOMAIN transactions : deleteTransaction(id)
  \/ noCallSinceRead /\ \E paymentData \in InterleavePaymentInputs :
       createPayment(paymentData)
  \/ noCallSinceRead /\ \E id \in DOMAIN payments,
                           updates \in InterleavePaymentPatches :
       updatePayment(id, updates)
  \/ noCallSinceRead /\ \E id \in DOMAIN payments : deletePayment(id)

SpecInterleave == InitInterleave /\ [][NextInterleave]_vars

\* ------------------------------------------- the position functions alone
PosAmounts == -1..MaxPosAmount

InitPosition ==
  /\ partners = << >>
  /\ transactions = << >>
  /\ payments = << >>
  /\ nextId = [partners |-> 1, transactions |-> 1, payments |-> 1]
  /\ now = TicksPerDay
  /\ last = Outcome("init", 0, NoData, "ok")
  /\ probe \in [direction : Directions, total : PosAmounts, paid : PosAmounts,
                done : {FALSE}, position : {0}, inline : {0}, impact : {0}]

\* the three computations of a position, applied to the same (d, t, p)
computePosition ==
  /\ ~probe.done
  /\ probe' = [probe EXCEPT
       !.done = TRUE,
       !.position = calculatePosition(probe),
       !.inline = inlinePosition(probe),
       !.impact = calculateTransactionImpact(probe.direction, probe.total,
                                             probe.paid)]
  /\ UNCHANGED <<partners, transactions, payments, nextId, now, last>>

NextPosition == computePosition

SpecPosition == InitPosition /\ [][NextPosition]_vars

\* C1: the position of (d, t, p) is t - p for a SALE and -(t - p) for a
\* PURCHASE, so with p <= t a SALE position is >= 0 and a PURCHASE position
\* is <= 0; createTransaction's inline position and
\* calculateTransactionImpact give the value calculatePosition gives.
C1_PositionSign ==
  probe.done =>
    /\ probe.direction = "SALE" => probe.position = probe.total - probe.paid
    /\ probe.direction = "PURCHASE" => probe.position = probe.paid - probe.total
    /\ probe.paid <= probe.total =>
         /\ probe.direction = "SALE" => probe.position >= 0
         /\ probe.direction = "PURCHASE" => probe.position <= 0
    /\ probe.inline = probe.position
    /\ probe.impact = probe.position

C1_Witness ==
  /\ probe.done
  /\ probe.direction = "PURCHASE"
  /\ probe.paid < probe.total
  /\ probe.position < 0
  /\ probe.inline = probe.position

\* ----------------------------------------------- claims on the balance
\* every date of the ledger under test lies strictly between two of these
Timestamps == (TicksPerDay - 1)..(TicksPerDay + 1)

\* the sum of the positions of partner pid's transactions dated before ts
PositionsBefore(pid, ts) ==
  LET c(i) == IF /\ i \in DOMAIN transactions
                 /\ transactions[i].partnerId = pid
                 /\ transactions[i].date < ts
              THEN IF transactions[i].direction = "SALE"
                     THEN transactions[i].total - transactions[i].paid
                     ELSE transactions[i].paid - transactions[i].total
              ELSE 0
      f[n \in 0..MaxTxId + 1] == IF n = 0 THEN 0 ELSE f[n - 1] + c(n)
  IN  f[MaxTxId + 1]

\* the sum of the amounts of partner pid's payments dated before ts that
\* carry no transactionId
StandaloneBefore(pid, ts) ==
  LET c(i) == IF /\ i \in DOMAIN payments
                 /\ payments[i].partnerId = pid
                 /\ payments[i].date < ts
                 /\ payments[i].transactionId = NoTx
              THEN payments[i].amount
              ELSE 0
      f[n \in 0..MaxPaymentId + 1] == IF n = 0 THEN 0 ELSE f[n - 1] + c(n)
  IN  f[MaxPaymentId + 1]

\* the balance the specification defines: R - P when R >= 0, R + P when R < 0
LedgerBalance(pid, ts) ==
  LET R == PositionsBefore(pid, ts)
      P == StandaloneBefore(pid, ts)
  IN  IF R >= 0 THEN R - P ELSE R + P

\* C2: for every partner id and timestamp ts, getPreviousBalance returns
\* R - P when R >= 0 and R + P when R < 0, R being the sum of the positions
\* of exactly that partner's transactions dated before ts and P the sum of
\* the amounts of exactly that partner's payments dated before ts that have
\* no transactionId.
C2_BalanceFormula ==
  \A pid \in 1..MaxPartnerId, ts \in Timestamps :
    getPreviousBalance(pid, ts) = LedgerBalance(pid, ts)

C2_Witness ==
  \E pid \in DOMAIN partners :
    /\ PositionsBefore(pid, now + NowSlack) < 0
    /\ StandaloneBefore(pid, now + NowSlack) > 0
    /\ getCurrentBalance(pid) = PositionsBefore(pid, now + NowSlack)
                                  + StandaloneBefore(pid, now + NowSlack)
    /\ getPreviousBalance(pid, now) # getCurrentBalance(pid)
    /\ \E i \in DOMAIN payments : payments[i].partnerId # pid
                                    \/ payments[i].transactionId # NoTx

\* a step in which a payment carrying a transactionId was created, had its
\* amount or date changed, or was deleted
LinkedPaymentStep ==
  /\ last'.outcome = "ok"
  /\ \/ /\ last'.op = "createPayment"
        /\ payments'[last'.id].transactionId # NoTx
     \/ /\ last'.op = "updatePayment"
        /\ payments[last'.id].transactionId # NoTx
        /\ payments'[last'.id].transactionId = payments[last'.id].transactionId
        /\ payments'[last'.id].partnerId = payments[last'.id].partnerId
     \/ /\ last'.op = "deletePayment"
        /\ payments[last'.id].transactionId # NoTx

\* C3: a payment that carries a transactionId is never counted: creating
\* it, changing its amount or date, or deleting it leaves the balance of
\* every partner at every timestamp unchanged.
C3_LinkedPaymentFrame ==
  [][LinkedPaymentStep =>
       \A pid \in DOMAIN partners, ts \in Timestamps :
         getPreviousBalance(pid, ts)' = getPreviousBalance(pid, ts)]_vars

C3_Witness ==
  /\ last.op = "updatePayment"
  /\ last.outcome = "ok"
  /\ payments[last.id].transactionId # NoTx
  /\ payments[last.id].amount = 2
  /\ payments[last.id].date < now
  /\ getCurrentBalance(payments[last.id].partnerId) # 0

\* C4: whenever a partner's current balance is B # 0, recording a
\* standalone payment of exactly |B| (the one-payment case of the claim's
\* sequences) makes the balance taken after that payment equal to 0.
C4_ZeroSumPayments ==
  [][\A pid \in 1..MaxPartnerId, ts \in Timestamps :
       ( /\ last'.op = "createPayment"
         /\ last'.outcome = "ok"
         /\ payments'[last'.id].partnerId = pid
         /\ payments'[last'.id].transactionId = NoTx
         /\ payments'[last'.id].date <= now
         /\ ts = now + NowSlack
         /\ getCurrentBalance(pid) # 0
         /\ payments'[last'.id].amount
              = IF getCurrentBalance(pid) >= 0 THEN getCurrentBalance(pid)
                                              ELSE -getCurrentBalance(pid) )
       => getPreviousBalance(pid, ts)' = 0]_vars

TxEditCall ==
  /\ last'.op \in {"updateTransaction", "deleteTransaction"}
  /\ last'.id \in DOMAIN transactions

\* C5: for a stored transaction dated on the calendar day before the
\* current day, updateTransaction (any patch) and deleteTransaction fail
\* with Locked and leave it stored unchanged; for a transaction dated on
\* the current day the lock check passes, at every tick of that day.
C5_LockRule ==
  [][TxEditCall =>
       LET tx == transactions[last'.id]
       IN  /\ toDateString(tx.date) = toDateString(now) - 1 =>
                /\ last'.outcome = "Locked"
                /\ transactions' = transactions
                /\ payments' = payments
           /\ toDateString(tx.date) = toDateString(now) =>
                last'.outcome # "Locked"]_vars

C5_Witness ==
  /\ last.op = "updateTransaction"
  /\ last.outcome = "Locked"
  /\ last.id \in DOMAIN transactions
  /\ toDateString(transactions[last.id].date) = toDateString(now) - 1
  /\ now % TicksPerDay = 0
  /\ \E i \in DOMAIN payments : payments[i].transactionId = last.id

\* C6: Locked is terminal: a stored transaction that updateTransaction and
\* deleteTransaction would reject as not editable now stays stored with
\* the same fields and is still not editable after every step, the clock
\* only moving forward.
C6_LockedIsTerminal ==
  [][\A id \in DOMAIN transactions :
       toDateString(transactions[id].date) # toDateString(now) =>
         /\ id \in DOMAIN transactions'
         /\ transactions'[id] = transactions[id]
         /\ toDateString(transactions'[id].date) # toDateString(now')]_vars

\* ------------------------------------------------ claims on the partners
\* C7: no two stored partners have the same (name, type); createPartner
\* with a pair that already exists fails with DuplicatePartner and stores
\* nothing; with a valid name and a pair not yet stored (an existing name
\* under another type included) it succeeds and stores the partner.
C7_UniquePartners ==
  [][/\ \A i, j \in DOMAIN partners' :
          (partners'[i].name = partners'[j].name
             /\ partners'[i].type = partners'[j].type) => i = j
     /\ last'.op = "createPartner" =>
          LET d == last'.data
              stored == \E i \in DOMAIN partners :
                          partners[i].name = d.name /\ partners[i].type = d.type
          IN  /\ (trim(d.name) # << >> /\ stored) =>
                   last'.outcome = "DuplicatePartner" /\ partners' = partners
              /\ (trim(d.name) # << >> /\ ~stored) =>
                   /\ last'.outcome = "ok"
                   /\ last'.id \notin DOMAIN partners
                   /\ DOMAIN partners' = DOMAIN partners \cup {last'.id}
                   /\ partners'[last'.id] = d]_vars

C7_Witness ==
  /\ last.op = "createPartner"
  /\ last.outcome = "ok"
  /\ \E i \in DOMAIN partners :
       /\ i # last.id
       /\ partners[i].name = partners[last.id].name
       /\ partners[i].type # partners[last.id].type

\* C8: updatePartner re-runs the uniqueness check, excluding the partner
\* itself, whenever the patch changes the name or the type: a patch whose
\* result collides with another partner is rejected as a duplicate and the
\* partner is left unchanged; a patch that changes neither name nor type
\* is never rejected as a duplicate.
C8_UpdateRechecks ==
  [][(last'.op = "updatePartner" /\ last'.id \in DOMAIN partners) =>
       LET id == last'.id
           merged == merge(partners[id], last'.data)
           changes == merged.name # partners[id].name
                        \/ merged.type # partners[id].type
           collides == \E i \in DOMAIN partners :
                         /\ i # id
                         /\ partners[i].name = merged.name
                         /\ partners[i].type = merged.type
       IN  /\ (changes /\ collides) =>
                last'.outcome = "DuplicatePartner" /\ partners' = partners
           /\ ~changes => last'.outcome # "DuplicatePartner"]_vars

\* C9: deletePartner(id) fails with HasTransactions when a transaction has
\* partnerId = id, with HasPayments when none has but a payment has, in
\* both cases leaving every collection as it was; with no such record it
\* succeeds and removes exactly that partner.
C9_DeleteGuard ==
  [][last'.op = "deletePartner" =>
       LET id == last'.id
           hasTx == \E i \in DOMAIN transactions : transactions[i].partnerId = id
           hasPay == \E i \in DOMAIN payments : payments[i].partnerId = id
       IN  /\ hasTx => last'.outcome = "HasTransactions" /\ store' = store
           /\ (~hasTx /\ hasPay) =>
                last'.outcome = "HasPayments" /\ store' = store
           /\ (~hasTx /\ ~hasPay) =>
                /\ last'.outcome = "ok"
                /\ DOMAIN partners' = DOMAIN partners \ {id}
                /\ \A i \in DOMAIN partners' : partners'[i] = partners[i]
                /\ transactions' = transactions
                /\ payments' = payments]_vars

C9_Witness ==
  /\ last.op = "deletePartner"
  /\ last.outcome = "ok"
  /\ last.id = 1
  /\ 1 \notin DOMAIN partners
  /\ nextId.partners > 1
  /\ nextId.transactions > 1
  /\ nextId.payments > 1
  /\ transactions = << >>
  /\ payments = << >>

\* ---------------------------- claims on the rules of the transactions
\* C11: createTransaction(data) is rejected and inserts nothing whenever
\* data.total <= 0, data.paid < 0 or data.partnerId is not a stored partner
\* (PartnerNotFound when the amounts are valid); in every other case it
\* succeeds and stores data under a new id.
C11_CreateTransactionGuards ==
  [][last'.op = "createTransaction" =>
       LET d == last'.data
           badAmounts == d.total <= 0 \/ d.paid < 0
           noPartner == d.partnerId \notin DOMAIN partners
       IN  /\ (badAmounts \/ noPartner) =>
                last'.outcome # "ok" /\ transactions' = transactions
           /\ (~badAmounts /\ noPartner) => last'.outcome = "PartnerNotFound"
           /\ (~badAmounts /\ ~noPartner) =>
                /\ last'.outcome = "ok"
                /\ last'.id \notin DOMAIN transactions
                /\ DOMAIN transactions' = DOMAIN transactions \cup {last'.id}
                /\ transactions'[last'.id] = d]_vars

C11_Witness ==
  /\ last.op = "createTransaction"
  /\ last.outcome = "PartnerNotFound"
  /\ last.data.total > 0
  /\ last.data.paid >= 0
  /\ last.data.partnerId \notin DOMAIN partners
  /\ transactions # << >>

\* C12: every stored transaction has paid <= total, in every state reached
\* by createTransaction, updateTransaction and deleteTransaction calls.
C12_PaidWithinTotal ==
  \A i \in DOMAIN transactions : transactions[i].paid <= transactions[i].total

\* C13: updateTransaction(id, patch) fails with NotFound when id is not
\* stored; on an editable transaction it is rejected, the store unchanged,
\* whenever the merged record (patch over stored fields) has total <= 0,
\* paid < 0 or paid > total, also when only one field is in the patch and
\* the other is the stored one; a valid merged record is persisted.
C13_UpdateValidatesMerge ==
  [][last'.op = "updateTransaction" =>
       LET id == last'.id
           patch == last'.data
       IN  /\ id \notin DOMAIN transactions =>
                last'.outcome = "NotFound" /\ store' = store
           /\ (id \in DOMAIN transactions
                 /\ toDateString(transactions[id].date) = toDateString(now)) =>
                LET tx == transactions[id]
                    merged == [f \in DOMAIN tx |->
                                 IF f \in DOMAIN patch THEN patch[f] ELSE tx[f]]
                    invalid == \/ merged.total <= 0
                               \/ merged.paid < 0
                               \/ merged.paid > merged.total
                IN  /\ invalid => last'.outcome = "Invalid" /\ store' = store
                    /\ ~invalid =>
                         /\ last'.outcome = "ok"
                         /\ DOMAIN transactions' = DOMAIN transactions
                         /\ transactions'[id] = merged
                         /\ \A i \in DOMAIN transactions \ {id} :
                              transactions'[i] = transactions[i]
                         /\ partners' = partners
                         /\ payments' = payments]_vars

C13_Witness ==
  /\ last.op = "updateTransaction"
  /\ last.outcome = "Invalid"
  /\ last.id \in DOMAIN transactions
  /\ DOMAIN last.data = {"paid"}
  /\ last.data.paid >= 0
  /\ last.data.paid > transactions[last.id].total
  /\ transactions[last.id].paid <= transactions[last.id].total

\* C14: deleteTransaction(id) succeeds exactly when the transaction is
\* stored, editable and no stored payment has transactionId = id, and then
\* removes that transaction alone; when it is stored and editable but a
\* payment references it the call fails with HasPayments and nothing
\* changes; no payment that pointed at a stored transaction before the call
\* points at a removed one after it.
C14_DeleteTransactionGuard ==
  [][last'.op = "deleteTransaction" =>
       LET id == last'.id
           stored == id \in DOMAIN transactions
           editable == stored /\ toDateString(transactions[id].date)
                                   = toDateString(now)
           linked == \E i \in DOMAIN payments : payments[i].transactionId = id
       IN  /\ last'.outcome = "ok" <=> (stored /\ editable /\ ~linked)
           /\ last'.outcome = "ok" =>
                /\ DOMAIN transactions' = DOMAIN transactions \ {id}
                /\ \A i \in DOMAIN transactions' :
                     transactions'[i] = transactions[i]
                /\ payments' = payments
                /\ partners' = partners
           /\ (stored /\ editable /\ linked) =>
                last'.outcome = "HasPayments" /\ store' = store
           /\ \A i \in DOMAIN payments' :
                (payments'[i].transactionId # NoTx
                   /\ payments'[i].transactionId \in DOMAIN transactions) =>
                  payments'[i].transactionId \in DOMAIN transactions']_vars

C14_Witness ==
  /\ last.op = "deleteTransaction"
  /\ last.outcome = "HasPayments"
  /\ last.id \in DOMAIN transactions
  /\ toDateString(transactions[last.id].date) = toDateString(now)
  /\ \E i \in DOMAIN payments : payments[i].transactionId = last.id

\* -------------------------------- claims on the rules of the payments
\* C15: createPayment(data) is rejected and inserts nothing whenever
\* data.amount <= 0, data.partnerId is not a stored partner
\* (PartnerNotFound), a transactionId is given that is not a stored
\* transaction (TransactionNotFound), or the transaction it names belongs
\* to another partner (PartnerMismatch); in every other case exactly one
\* payment, data, is inserted and nothing else changes.
C15_CreatePaymentGuards ==
  [][last'.op = "createPayment" =>
       LET d == last'.data
           badAmount == d.amount <= 0
           noPartner == d.partnerId \notin DOMAIN partners
           given == d.transactionId # NoTx
           noTx == given /\ d.transactionId \notin DOMAIN transactions
           mismatch == /\ given
                       /\ ~noTx
                       /\ transactions[d.transactionId].partnerId # d.partnerId
       IN  /\ (badAmount \/ noPartner \/ noTx \/ mismatch) =>
                last'.outcome # "ok" /\ store' = store
           /\ (~badAmount /\ noPartner) => last'.outcome = "PartnerNotFound"
           /\ (~badAmount /\ ~noPartner /\ noTx) =>
                last'.outcome = "TransactionNotFound"
           /\ (~badAmount /\ ~noPartner /\ mismatch) =>
                last'.outcome = "PartnerMismatch"
           /\ ~(badAmount \/ noPartner \/ noTx \/ mismatch) =>
                /\ last'.outcome = "ok"
                /\ last'.id \notin DOMAIN payments
                /\ DOMAIN payments' = DOMAIN payments \cup {last'.id}
                /\ payments'[last'.id] = d
                /\ \A i \in DOMAIN payments : payments'[i] = payments[i]
                /\ transactions' = transactions
                /\ partners' = partners]_vars

C15_Witness ==
  /\ last.op = "createPayment"
  /\ last.outcome = "PartnerMismatch"
  /\ last.data.amount > 0
  /\ last.data.partnerId \in DOMAIN partners
  /\ last.data.transactionId \in DOMAIN transactions
  /\ transactions[last.data.transactionId].partnerId # last.data.partnerId
  /\ payments # << >>

\* C16: updatePayment and deletePayment fail with NotFound on an id that is
\* not stored and otherwise succeed whatever the payment's date and
\* whatever transaction it is linked to, except that updatePayment is
\* rejected, the payment unchanged, when the patch has an amount <= 0;
\* deletePayment removes that payment and no transaction or partner.
C16_PaymentsNoEditWindow ==
  [][/\ last'.op = "updatePayment" =>
          LET id == last'.id
              patch == last'.data
          IN  /\ id \notin DOMAIN payments =>
                   last'.outcome = "NotFound" /\ store' = store
              /\ (id \in DOMAIN payments
                    /\ "amount" \in DOMAIN patch /\ patch.amount <= 0) =>
                   last'.outcome = "Invalid" /\ store' = store
              /\ (id \in DOMAIN payments
                    /\ ~("amount" \in DOMAIN patch /\ patch.amount <= 0)) =>
                   /\ last'.outcome = "ok"
                   /\ DOMAIN payments' = DOMAIN payments
                   /\ payments'[id] =
                        [f \in DOMAIN payments[id] |->
                           IF f \in DOMAIN patch THEN patch[f]
                                                 ELSE payments[id][f]]
                   /\ \A i \in DOMAIN payments \ {id} :
                        payments'[i] = payments[i]
                   /\ transactions' = transactions
                   /\ partners' = partners
     /\ last'.op = "deletePayment" =>
          LET id == last'.id
          IN  /\ id \notin DOMAIN payments =>
                   last'.outcome = "NotFound" /\ store' = store
              /\ id \in DOMAIN payments =>
                   /\ last'.outcome = "ok"
                   /\ DOMAIN payments' = DOMAIN payments \ {id}
                   /\ \A i \in DOMAIN payments' : payments'[i] = payments[i]
                   /\ transactions' = transactions
                   /\ partners' = partners]_vars

C16_Witness ==
  /\ last.op = "updatePayment"
  /\ last.outcome = "ok"
  /\ "amount" \in DOMAIN last.data
  /\ toDateString(payments[last.id].date) < toDateString(now)
  /\ payments[last.id].transactionId \in DOMAIN transactions
  /\ ~canEditTransaction(transactions[payments[last.id].transactionId])

\* ------------------------------------- claims on the ledger as a whole
LedgerOps ==
  { "createPartner", "updatePartner", "deletePartner",
    "createTransaction", "updateTransaction", "deleteTransaction",
    "createPayment", "updatePayment", "deletePayment" }

\* C17: a create, update or delete call on partners, transactions or
\* payments that ends in a rejection leaves the three collections exactly
\* as they were before the call.
C17_NoPartialApply ==
  [][(last'.op \in LedgerOps /\ last'.outcome # "ok") =>
       /\ partners' = partners
       /\ transactions' = transactions
       /\ payments' = payments]_vars

C17_Witness ==
  /\ last.op = "updatePartner"
  /\ last.outcome = "ConstraintError"
  /\ last.id \in DOMAIN partners
  /\ transactions # << >>
  /\ payments # << >>

\* ------------------------------------------- claims on the queries
\* the balance the specification defines, taken at the time of a query
CurrentLedgerBalance(pid) == LedgerBalance(pid, now + NowSlack)

\* the sum of the current balances of the stored partners that are > 0
PositiveBalances ==
  LET c(p) == IF p \in DOMAIN partners /\ CurrentLedgerBalance(p) > 0
                THEN CurrentLedgerBalance(p) ELSE 0
      f[n \in 0..MaxPartnerId] == IF n = 0 THEN 0 ELSE f[n - 1] + c(n)
  IN  f[MaxPartnerId]

\* the sum of |balance| over the stored partners whose balance is < 0
NegativeBalances ==
  LET c(p) == IF p \in DOMAIN partners /\ CurrentLedgerBalance(p) < 0
                THEN -CurrentLedgerBalance(p) ELSE 0
      f[n \in 0..MaxPartnerId] == IF n = 0 THEN 0 ELSE f[n - 1] + c(n)
  IN  f[MaxPartnerId]

\* the detail the specification defines for a stored partner
DetailMatches(detail, pid) ==
  /\ detail.partnerId = pid
  /\ detail.partner = partners[pid]
  /\ detail.balance = CurrentLedgerBalance(pid)
  /\ detail.transactionCount =
       Cardinality({ i \in DOMAIN transactions : transactions[i].partnerId = pid })

\* C18: what getGlobalSummary returned has creances = the sum of the
\* current balances that are > 0, dettes = the sum of |balance| over the
\* balances that are < 0, netBalance = creances - dettes, totalTransactions
\* = the number of transactions of the stored partners and totalPartners =
\* the number of stored partners; both totals are >= 0.
C18_GlobalSummary ==
  last.op = "getGlobalSummary" =>
    LET r == last.data.result
    IN  /\ r.creances = PositiveBalances
        /\ r.dettes = NegativeBalances
        /\ r.netBalance = r.creances - r.dettes
        /\ r.totalTransactions =
             Cardinality({ i \in DOMAIN transactions :
                             transactions[i].partnerId \in DOMAIN partners })
        /\ r.totalPartners = Cardinality(DOMAIN partners)
        /\ r.creances >= 0
        /\ r.dettes >= 0

C18_Witness ==
  /\ last.op = "getGlobalSummary"
  /\ last.data.result.creances > 0
  /\ last.data.result.dettes > 0
  /\ last.data.result.totalPartners = 2
  /\ last.data.result.totalTransactions > 0
  /\ payments # << >>

\* C19: getPartnerBalance returns null, without failing, for an id that is
\* not a stored partner, and for a stored one that partner with its current
\* balance and the number of its transactions; getAllBalances returns
\* exactly one detail for each stored partner of the type asked for (for
\* every stored partner when no type is given) and nothing else.
C19_QueriesTotal ==
  /\ last.op = "getPartnerBalance" =>
       /\ last.outcome = "ok"
       /\ last.id \notin DOMAIN partners => last.data.result = Null
       /\ last.id \in DOMAIN partners =>
            DetailMatches(last.data.result, last.id)
  /\ last.op = "getAllBalances" =>
       LET r == last.data.result
           wanted == { p \in DOMAIN partners :
                         last.data.type = NoType
                           \/ partners[p].type = last.data.type }
       IN  /\ last.outcome = "ok"
           /\ Len(r) = Cardinality(wanted)
           /\ \A k \in 1..Len(r) :
                r[k].partnerId \in wanted /\ DetailMatches(r[k], r[k].partnerId)
           /\ \A p \in wanted : \E k \in 1..Len(r) : r[k].partnerId = p

C19_Witness ==
  /\ last.op = "getAllBalances"
  /\ last.data.type = "SUPPLIER"
  /\ Len(last.data.result) = 1
  /\ Cardinality(DOMAIN partners) = 2
  /\ last.data.result[1].balance < 0
  /\ last.data.result[1].transactionCount = 2

QueryOps ==
  { "getPreviousBalance", "getCurrentBalance", "getPartnerBalance",
    "getAllBalances", "getGlobalSummary" }

StandalonePaymentStep(pid, ts) ==
  /\ last'.op = "createPayment"
  /\ last'.outcome = "ok"
  /\ payments'[last'.id].partnerId = pid
  /\ payments'[last'.id].transactionId = NoTx
  /\ payments'[last'.id].date <= now
  /\ ts = now + NowSlack

\* C21: recording one more standalone payment of a partner whose current
\* balance is negative yields a strictly greater current balance, and of a
\* partner whose current balance is positive a strictly smaller one.
C21_PaymentTowardZero ==
  [][\A pid \in 1..MaxPartnerId, ts \in Timestamps :
       StandalonePaymentStep(pid, ts) =>
         /\ getCurrentBalance(pid) < 0 =>
              getPreviousBalance(pid, ts)' > getCurrentBalance(pid)
         /\ getCurrentBalance(pid) > 0 =>
              getPreviousBalance(pid, ts)' < getCurrentBalance(pid)]_vars

\* C25: after a successful createTransaction(data) for a partner that has
\* no other transaction or payment dated at or after data.date, the balance
\* of that partner as of data.date + 1 equals the nouveau of the snapshot
\* the call returned.
C25_SnapshotAgrees ==
  [][\A pid \in 1..MaxPartnerId, ts \in Timestamps :
       ( /\ last'.op = "createTransaction"
         /\ last'.outcome = "ok"
         /\ transactions'[last'.id].partnerId = pid
         /\ ts = transactions'[last'.id].date + 1
         /\ \A i \in DOMAIN transactions :
              transactions[i].partnerId = pid =>
                transactions[i].date < transactions'[last'.id].date
         /\ \A i \in DOMAIN payments :
              payments[i].partnerId = pid =>
                payments[i].date < transactions'[last'.id].date )
       => getPreviousBalance(pid, ts)' = last'.snapshot.nouveau]_vars

\* C26: the current balance of a partner taken after createPayment of a
\* standalone payment of amount a dated now equals
\* previewBalanceAfterPayment(b, a), b being the current balance before.
C26_PreviewAgrees ==
  [][\A pid \in 1..MaxPartnerId, ts \in Timestamps :
       ( StandalonePaymentStep(pid, ts) /\ payments'[last'.id].date = now )
       => getPreviousBalance(pid, ts)'
            = previewBalanceAfterPayment(getCurrentBalance(pid),
                                         payments'[last'.id].amount)]_vars

\* --------------------------------- claims on the stored records
\* C22: every stored payment has amount > 0 and every stored transaction
\* has total > 0 and paid >= 0, whatever creates, updates (with or without
\* the field in the patch) and deletes were called.
C22_AmountInvariants ==
  /\ \A i \in DOMAIN payments : payments[i].amount > 0
  /\ \A i \in DOMAIN transactions :
       transactions[i].total > 0 /\ transactions[i].paid >= 0

C22_Witness ==
  /\ last.op = "updatePayment"
  /\ last.outcome = "Invalid"
  /\ last.data.amount <= 0
  /\ \E i \in DOMAIN transactions : transactions[i].paid = 0
  /\ \E i \in DOMAIN payments : payments[i].amount = 2

\* C23: every stored transaction and every stored payment has a partnerId
\* that is a stored partner, whatever ledger operations were called and
\* with whatever patches.
C23_PartnerIntegrity ==
  /\ \A i \in DOMAIN transactions :
       transactions[i].partnerId \in DOMAIN partners
  /\ \A i \in DOMAIN payments : payments[i].partnerId \in DOMAIN partners

\* C24: every stored payment that has a transactionId names a stored
\* transaction whose partnerId is the payment's partnerId, whatever ledger
\* operations were called and with whatever patches.
C24_LinkIntegrity ==
  \A i \in DOMAIN payments :
    payments[i].transactionId # NoTx =>
      /\ payments[i].transactionId \in DOMAIN transactions
      /\ transactions[payments[i].transactionId].partnerId
           = payments[i].partnerId

\* ------------------------------ claims on the partners' independence
\* the partners the call of a step is about: the owner of the transaction
\* or payment it creates, updates or deletes, or the partner record itself
Affected ==
  IF last'.op \in {"createTransaction", "createPayment"}
    THEN {last'.data.partnerId}
  ELSE IF last'.op \in {"updateTransaction", "deleteTransaction"}
    THEN IF last'.id \in DOMAIN transactions
           THEN {transactions[last'.id].partnerId} ELSE {}
  ELSE IF last'.op \in {"updatePayment", "deletePayment"}
    THEN IF last'.id \in DOMAIN payments
           THEN {payments[last'.id].partnerId} ELSE {}
  ELSE IF last'.op \in {"createPartner", "updatePartner", "deletePartner"}
    THEN {last'.id}
  ELSE {}

\* C27: creating, deleting or updating (partnerId unchanged) a transaction
\* or payment of one partner, and creating, updating or deleting a partner
\* record, leaves the balance of every other partner unchanged at every
\* timestamp.
C27_BalancesIndependent ==
  [][last'.op \in LedgerOps =>
       \A B \in (1..MaxPartnerId) \ Affected, ts \in Timestamps :
         getPreviousBalance(B, ts)' = getPreviousBalance(B, ts)]_vars

C27_Witness ==
  /\ last.op = "updateTransaction"
  /\ last.outcome = "ok"
  /\ transactions[last.id].partnerId = 1
  /\ getCurrentBalance(2) # 0
  /\ getCurrentBalance(1) # getCurrentBalance(2)
  /\ \E i \in DOMAIN payments : payments[i].partnerId = 2

\* ------------------------------------- claims on the global summary
\* the signed sum of the current balances of the stored partners
SignedBalances ==
  LET c(p) == IF p \in DOMAIN partners THEN CurrentLedgerBalance(p) ELSE 0
      f[n \in 0..MaxPartnerId] == IF n = 0 THEN 0 ELSE f[n - 1] + c(n)
  IN  f[MaxPartnerId]

\* the sum of the absolute values of those balances
AbsoluteBalances ==
  LET c(p) == IF p \notin DOMAIN partners THEN 0
              ELSE IF CurrentLedgerBalance(p) < 0 THEN -CurrentLedgerBalance(p)
              ELSE CurrentLedgerBalance(p)
      f[n \in 0..MaxPartnerId] == IF n = 0 THEN 0 ELSE f[n - 1] + c(n)
  IN  f[MaxPartnerId]

\* C30: the netBalance getGlobalSummary returned is the signed sum of the
\* current balances of the stored partners, and creances + dettes is the
\* sum of their absolute values.
C30_SummaryAlgebra ==
  last.op = "getGlobalSummary" =>
    /\ last.data.result.netBalance = SignedBalances
    /\ last.data.result.creances + last.data.result.dettes = AbsoluteBalances

C30_Witness ==
  /\ last.op = "getGlobalSummary"
  /\ last.data.result.creances > 0
  /\ last.data.result.dettes > 0
  /\ last.data.result.netBalance # 0
  /\ last.data.result.netBalance = SignedBalances

\* --------------------------------------------- claims on the dashboard
\* the stored partners a list of balances names
Listed(list) == { list[k].partnerId : k \in 1..Len(list) }

\* the list holds stored partners with their current balance, each once
ListsCurrentBalances(list) ==
  /\ \A k \in 1..Len(list) :
       /\ list[k].partnerId \in DOMAIN partners
       /\ list[k].balance = getCurrentBalance(list[k].partnerId)
  /\ \A j, k \in 1..Len(list) : list[j].partnerId = list[k].partnerId => j = k

\* C28: topDebtors of the dashboard is the at most 5 partners with the
\* largest strictly positive current balances in descending order, and
\* topCreditors the at most 5 partners with the most negative current
\* balances, most negative first; a partner with balance 0 is in neither
\* list, no partner is in both, and no omitted partner has a larger
\* |balance| on that side than a listed one.
C28_TopLists ==
  last.op = "useDashboard" =>
    LET debtors == last.data.result.topDebtors
        creditors == last.data.result.topCreditors
        positive == { p \in DOMAIN partners : getCurrentBalance(p) > 0 }
        negative == { p \in DOMAIN partners : getCurrentBalance(p) < 0 }
        atMost5(n) == IF n < 5 THEN n ELSE 5
    IN  /\ ListsCurrentBalances(debtors)
        /\ ListsCurrentBalances(creditors)
        /\ Listed(debtors) \subseteq positive
        /\ Listed(creditors) \subseteq negative
        /\ Len(debtors) = atMost5(Cardinality(positive))
        /\ Len(creditors) = atMost5(Cardinality(negative))
        /\ \A k \in 1..(Len(debtors) - 1) :
             debtors[k].balance >= debtors[k + 1].balance
        /\ \A k \in 1..(Len(creditors) - 1) :
             creditors[k].balance <= creditors[k + 1].balance
        /\ \A p \in positive \ Listed(debtors), k \in 1..Len(debtors) :
             getCurrentBalance(p) <= debtors[k].balance
        /\ \A p \in negative \ Listed(creditors), k \in 1..Len(creditors) :
             getCurrentBalance(p) >= creditors[k].balance
        /\ Listed(debtors) \cap Listed(creditors) = {}
        /\ \A p \in DOMAIN partners :
             getCurrentBalance(p) = 0 =>
               p \notin Listed(debtors) \cup Listed(creditors)

\* six debtors with different balances, so one is cut off
C28_Witness ==
  /\ last.op = "useDashboard"
  /\ Cardinality({ p \in DOMAIN partners : getCurrentBalance(p) > 0 }) > 5
  /\ Len(last.data.result.topDebtors) = 5
  /\ last.data.result.topDebtors[1].balance
       > last.data.result.topDebtors[5].balance
  /\ last.data.result.topDebtors[1].partnerId # 1

\* ------------------------------ claims on a balance read during a write
\* the balance of partner pid before ts on the ledger made of the tables
\* txs and pays: R - P when R >= 0, R + P when R < 0
BalanceOn(txs, pays, pid, ts) ==
  LET position(i) ==
        IF i \in DOMAIN txs /\ txs[i].partnerId = pid
           /\ txs[i].date >= 0 /\ txs[i].date < ts
          THEN IF txs[i].direction = "SALE" THEN txs[i].total - txs[i].paid
               ELSE txs[i].paid - txs[i].total
          ELSE 0
      amount(i) ==
        IF i \in DOMAIN pays /\ pays[i].partnerId = pid
           /\ pays[i].transactionId = NoTx /\ pays[i].date < ts
          THEN pays[i].amount
          ELSE 0
      sumR[n \in 0..(MaxTxId + 1)] == IF n = 0 THEN 0 ELSE sumR[n - 1] + position(n)
      sumP[n \in 0..(MaxPaymentId + 1)] ==
        IF n = 0 THEN 0 ELSE sumP[n - 1] + amount(n)
      R == sumR[MaxTxId + 1]
      P == sumP[MaxPaymentId + 1]
  IN  IF R >= 0 THEN R - P ELSE R + P

\* the getPreviousBalance call that was between its reads has just returned
JustReturned == probe.phase = "returned" /\ last.op = "getPreviousBalance"

\* C29: when at most one create, update or delete call of a transaction or
\* a payment runs between the transactions read and the payments read of
\* getPreviousBalance, the value returned is the balance of the ledger
\* before that call or the balance of the ledger after it.
C29_OneWriteConsistent ==
  JustReturned =>
    \/ last.data.result = BalanceOn(probe.seen.transactions, probe.seen.payments,
                                    probe.partnerId, probe.beforeDate)
    \/ last.data.result = BalanceOn(transactions, payments,
                                    probe.partnerId, probe.beforeDate)

\* a call changed the balance between the two reads
C29_Witness ==
  /\ JustReturned
  /\ BalanceOn(probe.seen.transactions, probe.seen.payments,
               probe.partnerId, probe.beforeDate)
       # BalanceOn(transactions, payments, probe.partnerId, probe.beforeDate)
  /\ probe.seen.payments # payments
  /\ last.data.result = BalanceOn(transactions, payments,
                                  probe.partnerId, probe.beforeDate)
  /\ last.data.result < 0

====
